---------------------------- MODULE Spec2Model ----------------------------
(***************************************************************************)
(* Model of tools/codegen/operator_versions/gen_mobile_upgraders.py: the   *)
(* generator of the mobile upgrader registry (upgrader_mobile.cpp).        *)
(*                                                                         *)
(* Python strings that the program splits or orders are sequences of       *)
(* one-character strings, compared by code point as Python's str does.     *)
(* A dict is the sequence of its items in enumeration order (keys          *)
(* distinct).  A CodeTemplate substitution is the record of the values     *)
(* substituted into it; a "".join(parts) is the sequence of the parts.     *)
(***************************************************************************)
EXTENDS Integers, Sequences, FiniteSets, TLC

VARIABLES
    upgrader_list,      \* main: what generate_bytecode() returned
    version_map,        \* what torch._C._get_operator_version_map() returns
    pc,                 \* position in main / write_cpp
    sorted_upgrader_list,
    upgrader_bytecode_function_to_index_map,
    version_map_src,
    all_upgrader_src_string,
    next_upgrader,      \* position of the loop of write_cpp in upgrader_dict
    error,              \* the exception that ended the run, and where it was raised
    out_file,           \* upgrader_mobile.cpp: <<>> when empty, else <<content>>
    opened,             \* whether this run has executed open(..., "wb")
    regenerated,        \* whether this is a second run on a reordered input
    previous            \* the outcome of the first run (second run only)

vars == <<upgrader_list, version_map, pc, sorted_upgrader_list,
          upgrader_bytecode_function_to_index_map, version_map_src,
          all_upgrader_src_string, next_upgrader, error, out_file, opened,
          regenerated, previous>>

----------------------------------------------------------------------------
(* Upgrader names and operator names of the inputs.                        *)

\* "div__Scalar_0_3"
div__Scalar_0_3 ==
    <<"d", "i", "v", "_", "_", "S", "c", "a", "l", "a", "r", "_", "0", "_", "3">>
\* "div_Tensor_mode_0_3"
div_Tensor_mode_0_3 ==
    <<"d", "i", "v", "_", "T", "e", "n", "s", "o", "r", "_", "m", "o", "d", "e", "_", "0", "_", "3">>
\* "full_names_0_4"
full_names_0_4 ==
    <<"f", "u", "l", "l", "_", "n", "a", "m", "e", "s", "_", "0", "_", "4">>
\* "full_out_0_4"
full_out_0_4 ==
    <<"f", "u", "l", "l", "_", "o", "u", "t", "_", "0", "_", "4">>
\* "linspace_out_0_7"
linspace_out_0_7 ==
    <<"l", "i", "n", "s", "p", "a", "c", "e", "_", "o", "u", "t", "_", "0", "_", "7">>
\* "foo_0_1"
foo_0_1 ==
    <<"f", "o", "o", "_", "0", "_", "1">>
\* "bar_0_2"
bar_0_2 ==
    <<"b", "a", "r", "_", "0", "_", "2">>
\* "aten::div_.Scalar"
aten_div__Scalar ==
    <<"a", "t", "e", "n", ":", ":", "d", "i", "v", "_", ".", "S", "c", "a", "l", "a", "r">>
\* "aten::foo"
aten_foo ==
    <<"a", "t", "e", "n", ":", ":", "f", "o", "o">>
\* "aten::full.names"
aten_full_names ==
    <<"a", "t", "e", "n", ":", ":", "f", "u", "l", "l", ".", "n", "a", "m", "e", "s">>
\* "aten::full.out"
aten_full_out ==
    <<"a", "t", "e", "n", ":", ":", "f", "u", "l", "l", ".", "o", "u", "t">>

----------------------------------------------------------------------------
(* Python built-ins the generator relies on.                               *)

\* ord(c) for the characters that occur in the names above.
ord ==
    ("-" :> 45) @@ ("." :> 46) @@ ("0" :> 48) @@ ("1" :> 49) @@ ("2" :> 50) @@
    ("3" :> 51) @@ ("4" :> 52) @@ ("5" :> 53) @@ ("6" :> 54) @@ ("7" :> 55) @@
    ("8" :> 56) @@ ("9" :> 57) @@ (":" :> 58) @@ ("S" :> 83) @@ ("T" :> 84) @@
    ("_" :> 95) @@ ("a" :> 97) @@ ("b" :> 98) @@ ("c" :> 99) @@ ("d" :> 100) @@
    ("e" :> 101) @@ ("f" :> 102) @@ ("i" :> 105) @@ ("l" :> 108) @@
    ("m" :> 109) @@ ("n" :> 110) @@ ("o" :> 111) @@ ("p" :> 112) @@
    ("r" :> 114) @@ ("s" :> 115) @@ ("t" :> 116) @@ ("u" :> 117) @@
    ("v" :> 118)

\* a < b for two str: the first differing character decides by code point; a
\* proper prefix is smaller.
StrLess(a, b) ==
    \E k \in 1..(Len(b)) :
        /\ \A j \in 1..(k - 1) : j <= Len(a) /\ a[j] = b[j]
        /\ k - 1 <= Len(a)
        /\ \/ k = Len(a) + 1
           \/ k <= Len(a) /\ ord[a[k]] < ord[b[k]]

StrLessEq(a, b) == a = b \/ StrLess(a, b)

\* sorted(seq, key=...) over the keys of the elements: the position an element
\* of index i takes.  sorted() is stable: equal keys keep their input order.
SortedPosition(keys, i) ==
    1 + Cardinality({j \in 1..Len(keys) :
                        \/ StrLess(keys[j], keys[i])
                        \/ keys[j] = keys[i] /\ j < i})

\* sorted(seq, key=lambda x: keys[index of x])
Sorted(seq, keys) ==
    [r \in 1..Len(seq) |->
        seq[CHOOSE i \in 1..Len(seq) : SortedPosition(keys, i) = r]]

\* s.split('_'): the pieces between the underscores, empty pieces included.
RECURSIVE SplitFrom(_, _, _)
SplitFrom(s, k, piece) ==
    IF k > Len(s) THEN <<piece>>
    ELSE IF s[k] = "_" THEN <<piece>> \o SplitFrom(s, k + 1, <<>>)
    ELSE SplitFrom(s, k + 1, Append(piece, s[k]))

split(s) == SplitFrom(s, 1, <<>>)

NonEmpty(token) == token # <<>>

\* str(n) of an int
RECURSIVE DecimalDigits(_)
DecimalDigits(n) ==
    LET d == <<"0", "1", "2", "3", "4", "5", "6", "7", "8", "9">>
    IN  IF n < 10 THEN <<d[n + 1]>>
        ELSE Append(DecimalDigits(n \div 10), d[(n % 10) + 1])

IntToStr(n) == IF n < 0 THEN <<"-">> \o DecimalDigits(0 - n) ELSE DecimalDigits(n)

----------------------------------------------------------------------------
(* Python values read from the bytecode descriptions.                      *)

PyStr(s) == [type |-> "str", text |-> s, truth |-> FALSE, number |-> 0]
PyBool(b) == [type |-> "bool", text |-> "", truth |-> b, number |-> IF b THEN 1 ELSE 0]
PyInt(n) == [type |-> "int", text |-> "", truth |-> FALSE, number |-> n]
PyNone == [type |-> "NoneType", text |-> "", truth |-> FALSE, number |-> 0]

\* isinstance(v, str), isinstance(v, bool), isinstance(v, int): bool is a
\* subclass of int.
IsStr(v) == v.type = "str"
IsBool(v) == v.type = "bool"
IsInt(v) == v.type \in {"int", "bool"}

\* The outcome of a call: the value returned, or the exception raised.
Returned(v) == [ok |-> TRUE, error |-> "", value |-> v]
Raised(e) == [ok |-> FALSE, error |-> e, value |-> <<>>]

\* class ByteCode(Enum): ByteCode[table_name] raises KeyError for any other
\* name.
ByteCode == {"instructions", "constants", "types", "operators", "register_size"}

\* The two upgraders / operators the generator skips.
IsSkippedUpgrader(upgrader_name) ==
    upgrader_name = full_names_0_4 \/ upgrader_name = full_out_0_4

IsSkippedOperator(op_name) ==
    op_name = aten_full_names \/ op_name = aten_full_out

----------------------------------------------------------------------------
(* Rendering of one bytecode description.                                  *)

construct_instruction(instruction_list_from_yaml) ==
    Returned([k \in 1..Len(instruction_list_from_yaml) |->
        [operator_name |-> instruction_list_from_yaml[k].opcode,
         X |-> instruction_list_from_yaml[k].arg1,
         N |-> instruction_list_from_yaml[k].arg2]])

\* The text substituted for one constant: a str in quotes, a bool as
\* true/false, None as the empty text.
convert_constant(constant_from_yaml) ==
    IF IsStr(constant_from_yaml) THEN <<"\"", constant_from_yaml.text, "\"">>
    ELSE IF IsBool(constant_from_yaml)
         THEN (IF constant_from_yaml.truth THEN <<"true">> ELSE <<"false">>)
    ELSE <<>>

SupportedConstant(constant_from_yaml) ==
    \/ IsStr(constant_from_yaml)
    \/ IsBool(constant_from_yaml)
    \/ constant_from_yaml = PyNone

construct_constants(constants_list_from_yaml) ==
    IF \E k \in 1..Len(constants_list_from_yaml) :
            ~SupportedConstant(constants_list_from_yaml[k])
    THEN Raised("ValueError")
    ELSE Returned([k \in 1..Len(constants_list_from_yaml) |->
            [constant |-> convert_constant(constants_list_from_yaml[k])]])

construct_operators(operator_list_from_yaml) ==
    Returned([k \in 1..Len(operator_list_from_yaml) |->
        [operator_name |-> operator_list_from_yaml[k].name,
         overload_name |-> operator_list_from_yaml[k].overload,
         num_of_args |-> operator_list_from_yaml[k].num_args]])

construct_types(types_tr_list_from_yaml) ==
    Returned([k \in 1..Len(types_tr_list_from_yaml) |->
        [type_str |-> types_tr_list_from_yaml[k]]])

\* str(register_size_from_yaml) of an int or a bool
construct_register_size(register_size_from_yaml) ==
    IF ~IsInt(register_size_from_yaml) THEN Raised("ValueError")
    ELSE IF IsBool(register_size_from_yaml)
         THEN Returned(IF register_size_from_yaml.truth
                       THEN <<"T", "r", "u", "e">>
                       ELSE <<"F", "a", "l", "s", "e">>)
    ELSE Returned(IntToStr(register_size_from_yaml.number))

\* The dispatch on one (table_name, contents) item of a description.
construct_table(table_name, contents) ==
    IF table_name \notin ByteCode THEN Raised("KeyError")
    ELSE IF table_name = "instructions" THEN construct_instruction(contents)
    ELSE IF table_name = "constants" THEN construct_constants(contents)
    ELSE IF table_name = "operators" THEN construct_operators(contents)
    ELSE IF table_name = "types" THEN construct_types(contents)
    ELSE construct_register_size(contents)

\* The last item of the description that fills the slot table_name ("" when
\* the description has none): the value the *_str local holds after the loop.
SlotText(bytecode, table_name) ==
    LET at == {k \in 1..Len(bytecode) : bytecode[k].table_name = table_name}
    IN  IF at = {} THEN <<>>
        ELSE LET k == CHOOSE x \in at : \A y \in at : y <= x
             IN  construct_table(table_name, bytecode[k].contents).value

\* The body of the loop of write_cpp for one description that is not skipped:
\* the first item that raises ends the run, else ONE_UPGRADER_SRC is filled.
one_upgrader_src_string(upgrader_name, bytecode) ==
    LET results == [k \in 1..Len(bytecode) |->
                       construct_table(bytecode[k].table_name, bytecode[k].contents)]
        failing == {k \in 1..Len(bytecode) : ~results[k].ok}
    IN  IF failing # {}
        THEN Raised(results[CHOOSE k \in failing : \A j \in failing : k <= j].error)
        ELSE Returned(
            [upgrader_name |-> upgrader_name,
             instruction_list |-> SlotText(bytecode, "instructions"),
             constant_list |-> SlotText(bytecode, "constants"),
             type_list |-> SlotText(bytecode, "types"),
             register_size |-> SlotText(bytecode, "register_size"),
             operator_string_list |-> SlotText(bytecode, "operators")])

----------------------------------------------------------------------------
(* The name -> index map and the operator version map.                     *)

\* name -> index over the single-entry descriptions, in their order; a name
\* met again overwrites the index it had.
get_upgrader_bytecode_function_to_index_map(upgrader_dict) ==
    [upgrader_name \in {upgrader_dict[k].name : k \in 1..Len(upgrader_dict)} |->
        (CHOOSE k \in 1..Len(upgrader_dict) :
            /\ upgrader_dict[k].name = upgrader_name
            /\ \A j \in 1..Len(upgrader_dict) :
                   upgrader_dict[j].name = upgrader_name => j <= k) - 1]

\* list(filter(lambda token: token != "", upgrader_name.split('_')))
upgrader_info(upgrader_name) == SelectSeq(split(upgrader_name), NonEmpty)

\* The lookup written as index_map.get(upgrader_name, 0): an unknown name
\* does not raise.
one_upgrader_with_default_index(index_map, upgrader_entry) ==
    LET info == upgrader_info(upgrader_entry.upgrader_name)
    IN  IF Len(info) < 4 THEN Raised("IndexError")
        ELSE Returned(
            [upgrader_min_version |-> info[3],
             upgrader_max_version |-> info[4],
             upgrader_name |-> upgrader_entry.upgrader_name,
             bytecode_func_index |->
                IF upgrader_entry.upgrader_name \in DOMAIN index_map
                THEN index_map[upgrader_entry.upgrader_name] ELSE 0])

\* The body of the inner loop of construct_version_maps for one entry.
one_upgrader_in_version_map(index_map, upgrader_entry) ==
    LET info == upgrader_info(upgrader_entry.upgrader_name)
    IN  IF Len(info) < 4 THEN Raised("IndexError")
        ELSE IF upgrader_entry.upgrader_name \notin DOMAIN index_map
             THEN Raised("KeyError")
        ELSE Returned(
            [upgrader_min_version |-> info[3],
             upgrader_max_version |-> info[4],
             upgrader_name |-> upgrader_entry.upgrader_name,
             bytecode_func_index |-> index_map[upgrader_entry.upgrader_name]])

\* The operators sorted, each entry list left in the order of the table.
sorted_version_map_by_operator_only(vm) ==
    Sorted(vm, [k \in 1..Len(vm) |-> vm[k].op_name])

\* sorted(version_map.items(), key=lambda item: item[0]), each list sorted by
\* upgrader_name.
sorted_version_map(vm) ==
    LET by_op == Sorted(vm, [k \in 1..Len(vm) |-> vm[k].op_name])
    IN  [k \in 1..Len(by_op) |->
            [op_name |-> by_op[k].op_name,
             upgrader_entry_list |->
                Sorted(by_op[k].upgrader_entry_list,
                       [j \in 1..Len(by_op[k].upgrader_entry_list) |->
                           by_op[k].upgrader_entry_list[j].upgrader_name])]]

\* The operators the outer loop does not skip, in order.
KeptOperator(item) == ~IsSkippedOperator(item.op_name)

FirstFailure(results) ==
    results[CHOOSE k \in 1..Len(results) :
                /\ ~results[k].ok
                /\ \A j \in 1..(k - 1) : results[j].ok]

\* The inner loop for one operator: ONE_OPERATOR_IN_VERSION_MAP filled with
\* the joined upgraders, or the first exception an entry raises.
one_operator_in_version_map(index_map, item) ==
    LET results == [j \in 1..Len(item.upgrader_entry_list) |->
                       one_upgrader_in_version_map(index_map, item.upgrader_entry_list[j])]
    IN  IF \E j \in 1..Len(results) : ~results[j].ok
        THEN Raised(FirstFailure(results).error)
        ELSE Returned(
            [operator_name |-> item.op_name,
             upgrader_list_in_version_map |->
                [j \in 1..Len(results) |-> results[j].value]])

construct_version_maps(index_map, vm) ==
    LET kept == SelectSeq(sorted_version_map(vm), KeptOperator)
        results == [k \in 1..Len(kept) |->
                       one_operator_in_version_map(index_map, kept[k])]
    IN  IF \E k \in 1..Len(results) : ~results[k].ok
        THEN Raised(FirstFailure(results).error)
        ELSE Returned([k \in 1..Len(results) |-> results[k].value])

\* The descriptions left in the order generate_bytecode() gave them.
sort_upgrader_skipped(list) == list

\* sorted(upgrader_list, key=lambda one_upgrader: next(iter(one_upgrader)))
sort_upgrader(list) ==
    Sorted(list, [k \in 1..Len(list) |-> list[k].name])

\* UPGRADER_CPP_SRC filled with the version map and the joined functions.
upgrader_file_content ==
    [operator_version_map |-> version_map_src,
     upgrader_bytecode |-> all_upgrader_src_string]

----------------------------------------------------------------------------
(* The inputs: bytecode descriptions and the operator version table.       *)

\* A description as generate_bytecode() yields it: every table, well formed.
GoodByteCode ==
    <<[table_name |-> "instructions",
       contents |-> <<[opcode |-> "STOREN", arg1 |-> 1, arg2 |-> 2],
                      [opcode |-> "RET", arg1 |-> 0, arg2 |-> 0]>>],
      [table_name |-> "constants",
       contents |-> <<PyStr("trunc"), PyBool(TRUE), PyNone>>],
      [table_name |-> "types", contents |-> <<"Tensor">>],
      [table_name |-> "register_size", contents |-> PyInt(2)],
      [table_name |-> "operators",
       contents |-> <<[name |-> "aten::div", overload |-> "Scalar", num_args |-> 2]>>]>>

\* bytecode with the contents of one table replaced
WithTable(bytecode, table_name, contents) ==
    [k \in 1..Len(bytecode) |->
        IF bytecode[k].table_name = table_name
        THEN [table_name |-> table_name, contents |-> contents]
        ELSE bytecode[k]]

\* Descriptions that break one rule each: a table kind ByteCode does not
\* have, a constant that is an int, a negative register size, a register size
\* that is a str.
UnknownTableByteCode ==
    Append(GoodByteCode, [table_name |-> "debug_info", contents |-> <<"x">>])
IntConstantByteCode ==
    WithTable(GoodByteCode, "constants", <<PyStr("trunc"), PyInt(1)>>)
NegativeRegisterByteCode ==
    WithTable(GoodByteCode, "register_size", PyInt(0 - 1))
StrRegisterByteCode ==
    WithTable(GoodByteCode, "register_size", PyStr("2"))

SeqsUpTo(S, n) == UNION {[1..k -> S] : k \in 1..n}

Distinct(seq) == \A i, j \in 1..Len(seq) : seq[i] = seq[j] => i = j

\* Sequences of single-entry descriptions {name: bytecode}.
Descriptions(names, bytecodes, n) ==
    SeqsUpTo([name : names, bytecode : bytecodes], n)

\* An entry of the version table: its upgrader_name, and the version bounds
\* when the table supplies them as fields (<<>> when it does not).
Entry(upgrader_name, direct_bounds) ==
    [upgrader_name |-> upgrader_name, direct_bounds |-> direct_bounds]

\* Bounds of the inputs: the number of descriptions, and the number of
\* entries of the whole version table.
MaxUpgraders == 2
MaxEntries == 3

RECURSIVE EntryCount(_)
EntryCount(vm) ==
    IF vm = <<>> THEN 0
    ELSE Len(Head(vm).upgrader_entry_list) + EntryCount(Tail(vm))

\* The operator version tables, a dict op_name -> non-empty list of entries:
\* any of the operators of ops in any order, n entries at most.
Tables(ops, entries, n) ==
    {vm \in SeqsUpTo([op_name : ops, upgrader_entry_list : SeqsUpTo(entries, n)],
                     Cardinality(ops)) :
        /\ Distinct([k \in 1..Len(vm) |-> vm[k].op_name])
        /\ EntryCount(vm) <= n}

\* The tables of one operator with one entry.
SingleEntryTables(ops, entries) ==
    {<<[op_name |-> o, upgrader_entry_list |-> <<e>>]>> : o \in ops, e \in entries}

AllNames ==
    {bar_0_2, div_Tensor_mode_0_3, div__Scalar_0_3, foo_0_1, full_names_0_4,
     full_out_0_4, linspace_out_0_7}

AllEntries ==
    {Entry(div_Tensor_mode_0_3, <<>>), Entry(div__Scalar_0_3, <<>>),
     Entry(foo_0_1, <<0, 1>>), Entry(full_names_0_4, <<>>),
     Entry(linspace_out_0_7, <<>>)}

AllOperators == {aten_div__Scalar, aten_foo, aten_full_names, aten_full_out}

AllByteCodes ==
    {GoodByteCode, UnknownTableByteCode, IntConstantByteCode,
     NegativeRegisterByteCode, StrRegisterByteCode}

\* Names with well-formed bounds, one of them skipped, and operators that are
\* not skipped: the inputs on which the order of the output shows.
OrderedNames == {div__Scalar_0_3, full_names_0_4, linspace_out_0_7}
OrderedEntries == {Entry(div__Scalar_0_3, <<>>), Entry(linspace_out_0_7, <<>>)}
OrderedOperators == {aten_div__Scalar, aten_foo}

\* The file a previous generation left.
PreviousFile == <<[operator_version_map |-> <<>>, upgrader_bytecode |-> <<>>]>>

NoOutcome ==
    [failed |-> FALSE, out_file |-> <<>>, upgrader_list |-> <<>>, version_map |-> <<>>]

NoError == [type |-> "", raised_in |-> ""]

Start(ul, vm) ==
    /\ upgrader_list = ul
    /\ version_map = vm
    /\ pc = "main"
    /\ sorted_upgrader_list = <<>>
    /\ upgrader_bytecode_function_to_index_map = <<>>
    /\ version_map_src = <<>>
    /\ all_upgrader_src_string = <<>>
    /\ next_upgrader = 1
    /\ error = NoError
    /\ out_file = PreviousFile
    /\ opened = FALSE
    /\ regenerated = FALSE
    /\ previous = NoOutcome

\* Tables with several operators and entries over well-formed descriptions.
InitOrdered ==
    \E ul \in Descriptions(OrderedNames, {GoodByteCode}, MaxUpgraders),
       vm \in Tables(OrderedOperators, OrderedEntries, MaxEntries) :
        Start(ul, vm)

\* Every name against every reference, one reference at a time.
InitReferences ==
    \E ul \in Descriptions(AllNames, {GoodByteCode}, MaxUpgraders),
       vm \in SingleEntryTables(AllOperators, AllEntries) :
        Start(ul, vm)

\* Every kind of description, under a table that resolves or is skipped.
InitByteCodes ==
    \E ul \in Descriptions({div__Scalar_0_3, full_names_0_4}, AllByteCodes, MaxUpgraders),
       vm \in SingleEntryTables({aten_div__Scalar, aten_full_names},
                                {Entry(div__Scalar_0_3, <<>>)}) :
        Start(ul, vm)

Init == InitOrdered \/ InitReferences \/ InitByteCodes

\* Descriptions with unique names, for the runs that are repeated on a
\* reordered input.
InitReorder ==
    \E ul \in Descriptions(OrderedNames, {GoodByteCode}, MaxUpgraders),
       vm \in Tables(OrderedOperators, OrderedEntries, MaxEntries) :
        /\ Distinct([k \in 1..Len(ul) |-> ul[k].name])
        /\ Start(ul, vm)

----------------------------------------------------------------------------
(* main and write_cpp, step by step.                                       *)

\* main: sorted_upgrader_list = sort_upgrader(upgrader_list)
SortUpgrader ==
    /\ pc = "main"
    /\ sorted_upgrader_list' = sort_upgrader(upgrader_list)
    /\ pc' = "write_cpp"
    /\ UNCHANGED <<upgrader_list, version_map,
                   upgrader_bytecode_function_to_index_map, version_map_src,
                   all_upgrader_src_string, next_upgrader, error, out_file,
                   opened, regenerated, previous>>

\* write_cpp with the output file opened on entry, before anything is built.
GetIndexMapAfterOpen ==
    /\ pc = "write_cpp"
    /\ upgrader_bytecode_function_to_index_map' =
           get_upgrader_bytecode_function_to_index_map(sorted_upgrader_list)
    /\ out_file' = <<>>
    /\ opened' = TRUE
    /\ pc' = "version_maps"
    /\ UNCHANGED <<upgrader_list, version_map, sorted_upgrader_list,
                   version_map_src, all_upgrader_src_string, next_upgrader,
                   error, regenerated, previous>>

\* write_cpp: the name -> index map of upgrader_dict
GetIndexMap ==
    /\ pc = "write_cpp"
    /\ upgrader_bytecode_function_to_index_map' =
           get_upgrader_bytecode_function_to_index_map(sorted_upgrader_list)
    /\ pc' = "version_maps"
    /\ UNCHANGED <<upgrader_list, version_map, sorted_upgrader_list,
                   version_map_src, all_upgrader_src_string, next_upgrader,
                   error, out_file, opened, regenerated, previous>>

\* write_cpp: version_map_src = construct_version_maps(...); an exception
\* leaves write_cpp and main.
ConstructVersionMaps ==
    /\ pc = "version_maps"
    /\ LET r == construct_version_maps(
                    upgrader_bytecode_function_to_index_map, version_map)
       IN  /\ version_map_src' = r.value
           /\ error' = IF r.ok THEN error
                       ELSE [type |-> r.error, raised_in |-> "construct_version_maps"]
           /\ pc' = IF r.ok THEN "upgraders" ELSE "failed"
    /\ UNCHANGED <<upgrader_list, version_map, sorted_upgrader_list,
                   upgrader_bytecode_function_to_index_map,
                   all_upgrader_src_string, next_upgrader, out_file, opened,
                   regenerated, previous>>

\* write_cpp: one pass of the loop over upgrader_dict
RenderUpgrader ==
    /\ pc = "upgraders"
    /\ next_upgrader <= Len(sorted_upgrader_list)
    /\ LET d == sorted_upgrader_list[next_upgrader]
           r == one_upgrader_src_string(d.name, d.bytecode)
       IN  IF IsSkippedUpgrader(d.name)
           THEN /\ next_upgrader' = next_upgrader + 1
                /\ UNCHANGED <<all_upgrader_src_string, error, pc>>
           ELSE IF r.ok
           THEN /\ all_upgrader_src_string' = Append(all_upgrader_src_string, r.value)
                /\ next_upgrader' = next_upgrader + 1
                /\ UNCHANGED <<error, pc>>
           ELSE /\ error' = [type |-> r.error, raised_in |-> "write_cpp"]
                /\ pc' = "failed"
                /\ UNCHANGED <<all_upgrader_src_string, next_upgrader>>
    /\ UNCHANGED <<upgrader_list, version_map, sorted_upgrader_list,
                   upgrader_bytecode_function_to_index_map, version_map_src,
                   out_file, opened, regenerated, previous>>

\* write_cpp: after the loop, open(..., "wb") truncates the file
OpenFile ==
    /\ pc = "upgraders"
    /\ next_upgrader > Len(sorted_upgrader_list)
    /\ out_file' = <<>>
    /\ opened' = TRUE
    /\ pc' = "write"
    /\ UNCHANGED <<upgrader_list, version_map, sorted_upgrader_list,
                   upgrader_bytecode_function_to_index_map, version_map_src,
                   all_upgrader_src_string, next_upgrader, error,
                   regenerated, previous>>

\* write_cpp: out_file.write(upgrader_file_content.encode("utf-8"))
WriteFile ==
    /\ pc = "write"
    /\ out_file' = <<upgrader_file_content>>
    /\ pc' = "done"
    /\ UNCHANGED <<upgrader_list, version_map, sorted_upgrader_list,
                   upgrader_bytecode_function_to_index_map, version_map_src,
                   all_upgrader_src_string, next_upgrader, error, opened,
                   regenerated, previous>>

Next ==
    \/ SortUpgrader
    \/ GetIndexMap
    \/ ConstructVersionMaps
    \/ RenderUpgrader
    \/ OpenFile
    \/ WriteFile

Spec == Init /\ [][Next]_vars

----------------------------------------------------------------------------
(* A second generation from the same inputs enumerated in another order:   *)
(* generate_bytecode() and the version table are unordered backing stores. *)

\* The enumerations of the items of seq.
Reorderings(seq) ==
    {[k \in 1..Len(seq) |-> seq[p[k]]] : p \in Permutations(1..Len(seq))}

\* The enumerations of the dict vm, each entry list enumerated in any order.
ReorderedTables(vm) ==
    LET lists == {f \in [1..Len(vm) ->
                            UNION {Reorderings(vm[k].upgrader_entry_list) : k \in 1..Len(vm)}] :
                     \A k \in 1..Len(vm) : f[k] \in Reorderings(vm[k].upgrader_entry_list)}
    IN  {[k \in 1..Len(vm) |->
             [op_name |-> vm[q[k]].op_name, upgrader_entry_list |-> f[q[k]]]] :
            q \in Permutations(1..Len(vm)), f \in lists}

\* main is run again; the file of the first run is still there.
Regenerate ==
    /\ pc \in {"done", "failed"}
    /\ ~regenerated
    /\ \E ul \in Reorderings(upgrader_list), vm \in ReorderedTables(version_map) :
        /\ upgrader_list' = ul
        /\ version_map' = vm
    /\ previous' = [failed |-> pc = "failed", out_file |-> out_file,
                    upgrader_list |-> upgrader_list, version_map |-> version_map]
    /\ regenerated' = TRUE
    /\ pc' = "main"
    /\ sorted_upgrader_list' = <<>>
    /\ upgrader_bytecode_function_to_index_map' = <<>>
    /\ version_map_src' = <<>>
    /\ all_upgrader_src_string' = <<>>
    /\ next_upgrader' = 1
    /\ error' = NoError
    /\ opened' = FALSE
    /\ UNCHANGED out_file

NextReorder == Next \/ Regenerate

SpecReorder == InitReorder /\ [][NextReorder]_vars

----------------------------------------------------------------------------
(* The properties.                                                         *)

Ascending(keys) ==
    \A i, j \in 1..Len(keys) : i < j => StrLessEq(keys[i], keys[j])

NamesOf(list) == [k \in 1..Len(list) |-> list[k].name]
OperatorNamesOf(vm) == [k \in 1..Len(vm) |-> vm[k].op_name]
EntryNamesOf(entries) == [k \in 1..Len(entries) |-> entries[k].upgrader_name]

\* What a finished run wrote: the functions of getUpgraderBytecodeList and the
\* operators of the version map, in the order written.
EmittedFunctions == out_file[1].upgrader_bytecode
EmittedOperators == out_file[1].operator_version_map
EmittedFunctionNames ==
    [k \in 1..Len(EmittedFunctions) |-> EmittedFunctions[k].upgrader_name]
EmittedOperatorNames ==
    [k \in 1..Len(EmittedOperators) |-> EmittedOperators[k].operator_name]
EmittedUpgraders(k) == EmittedOperators[k].upgrader_list_in_version_map
EmittedUpgraderNames(k) ==
    [j \in 1..Len(EmittedUpgraders(k)) |-> EmittedUpgraders(k)[j].upgrader_name]

\* construct_version_maps has returned without raising.
VersionMapsReturned ==
    \/ pc \in {"upgraders", "write", "done"}
    \/ pc = "failed" /\ error.raised_in = "write_cpp"

\* C1: after a successful run every emitted Upgrader's bytecode_index lies in
\* [0, N), N the number of functions emitted, and the function emitted at that
\* position is the one named upgrader_name.
C1_IndexTotality ==
    pc = "done" =>
        \A k \in 1..Len(EmittedOperators) :
            \A j \in 1..Len(EmittedUpgraders(k)) :
                LET u == EmittedUpgraders(k)[j]
                IN  /\ u.bytecode_func_index \in 0..(Len(EmittedFunctions) - 1)
                    /\ EmittedFunctionNames[u.bytecode_func_index + 1] = u.upgrader_name

\* C2: a finished run emits the functions in ascending order of upgrader name,
\* the operators in ascending order of operator name, and each operator's
\* upgraders in ascending order of upgrader_name.
C2_SortOrder ==
    pc = "done" =>
        /\ Ascending(EmittedFunctionNames)
        /\ Ascending(EmittedOperatorNames)
        /\ \A k \in 1..Len(EmittedOperators) : Ascending(EmittedUpgraderNames(k))

\* A finished run whose descriptions, operators and entries all came out of
\* order, with two functions and two operators emitted.
C2_Witness ==
    /\ pc = "done"
    /\ ~Ascending(NamesOf(upgrader_list))
    /\ ~Ascending(OperatorNamesOf(version_map))
    /\ \E k \in 1..Len(version_map) :
           ~Ascending(EntryNamesOf(version_map[k].upgrader_entry_list))
    /\ Len(EmittedFunctions) >= 2
    /\ Len(EmittedOperators) >= 2

\* C3: a second run on the same descriptions (unique names) and the same
\* table, enumerated in another order, fails if and only if the first run
\* failed, and when it succeeds it writes what the first run wrote.
C3_Determinism ==
    (/\ regenerated
     /\ pc \in {"done", "failed"}
     /\ Distinct(NamesOf(upgrader_list))) =>
        /\ (pc = "failed") = previous.failed
        /\ pc = "done" => out_file = previous.out_file

\* A second run that succeeded on descriptions, operators and entries all
\* enumerated in another order than in the first run.
C3_Witness ==
    /\ regenerated
    /\ pc = "done"
    /\ NamesOf(upgrader_list) # NamesOf(previous.upgrader_list)
    /\ OperatorNamesOf(version_map) # OperatorNamesOf(previous.version_map)
    /\ \E k, m \in 1..Len(version_map) :
           /\ version_map[k].op_name = previous.version_map[m].op_name
           /\ version_map[k].upgrader_entry_list #
                  previous.version_map[m].upgrader_entry_list
    /\ Len(EmittedFunctions) >= 2

\* C4: after a successful run full_names_0_4 and full_out_0_4 are neither an
\* emitted function nor the upgrader_name of an emitted Upgrader, and
\* aten::full.names and aten::full.out are not keys of the emitted map.
C4_Exclusion ==
    pc = "done" =>
        /\ \A k \in 1..Len(EmittedFunctions) :
               ~IsSkippedUpgrader(EmittedFunctionNames[k])
        /\ \A k \in 1..Len(EmittedOperators) :
               /\ ~IsSkippedOperator(EmittedOperatorNames[k])
               /\ \A j \in 1..Len(EmittedUpgraders(k)) :
                      ~IsSkippedUpgrader(EmittedUpgraderNames(k)[j])

\* The entries of the operators op_name of the table whose upgrader_name is
\* no key of the name -> index map.
Unresolved(item) ==
    \E j \in 1..Len(item.upgrader_entry_list) :
        item.upgrader_entry_list[j].upgrader_name
            \notin DOMAIN upgrader_bytecode_function_to_index_map

\* C5 as stated: whenever the table holds an entry whose upgrader_name is no
\* key of the name -> index map, construct_version_maps ends with an error.
C5_EveryUnresolvedReferenceFails ==
    VersionMapsReturned =>
        \A k \in 1..Len(version_map) : ~Unresolved(version_map[k])

\* C5 amended: whenever an operator other than aten::full.names and
\* aten::full.out holds an entry whose upgrader_name is no key of the
\* name -> index map, construct_version_maps ends with an error.
C5_UnresolvedReferenceFails ==
    VersionMapsReturned =>
        \A k \in 1..Len(version_map) :
            ~IsSkippedOperator(version_map[k].op_name) => ~Unresolved(version_map[k])

\* construct_version_maps raised KeyError on the entry of a kept operator.
C5_Witness ==
    /\ pc = "failed"
    /\ error = [type |-> "KeyError", raised_in |-> "construct_version_maps"]
    /\ \E k \in 1..Len(version_map) :
           ~IsSkippedOperator(version_map[k].op_name) /\ Unresolved(version_map[k])

\* C6: the output file is opened only after the version map and every
\* description were built without error; a run that raised never opened it,
\* and the file of the previous generation is as it was.
C6_WriteAfterSuccess ==
    /\ opened =>
           /\ pc \in {"write", "done"}
           /\ error = NoError
           /\ next_upgrader > Len(sorted_upgrader_list)
    /\ ~opened => out_file = PreviousFile
    /\ pc = "failed" => ~opened /\ out_file = PreviousFile

\* A run that raised in the loop of write_cpp after a description had been
\* rendered: nothing was opened.
C6_Witness ==
    /\ pc = "failed"
    /\ error.raised_in = "write_cpp"
    /\ all_upgrader_src_string # <<>>
    /\ ~opened
    /\ out_file = PreviousFile

\* C7: a run whose descriptions share a name, or in which two entries of one
\* operator share an upgrader_name, aborts; no emitted function table holds a
\* name twice and no emitted upgrader list holds an upgrader_name twice.
C7_Uniqueness ==
    pc = "done" =>
        /\ Distinct(NamesOf(upgrader_list))
        /\ \A k \in 1..Len(version_map) :
               Distinct(EntryNamesOf(version_map[k].upgrader_entry_list))
        /\ Distinct(EmittedFunctionNames)
        /\ \A k \in 1..Len(EmittedOperators) : Distinct(EmittedUpgraderNames(k))

IsDecimal(token) ==
    /\ token # <<>>
    /\ \A k \in 1..Len(token) :
           token[k] \in {"0", "1", "2", "3", "4", "5", "6", "7", "8", "9"}

\* C8: every name construct_version_maps processes has four non-empty tokens
\* at least, the third and fourth decimal numbers, or generation fails; the
\* emitted min and max are these two tokens.
C8_NameDerivedBounds ==
    /\ VersionMapsReturned =>
           \A k \in 1..Len(version_map) :
               ~IsSkippedOperator(version_map[k].op_name) =>
                   \A j \in 1..Len(version_map[k].upgrader_entry_list) :
                       LET info == upgrader_info(
                                       version_map[k].upgrader_entry_list[j].upgrader_name)
                       IN  /\ Len(info) >= 4
                           /\ IsDecimal(info[3])
                           /\ IsDecimal(info[4])
    /\ pc = "done" =>
           \A k \in 1..Len(EmittedOperators) :
               \A j \in 1..Len(EmittedUpgraders(k)) :
                   LET u == EmittedUpgraders(k)[j]
                       info == upgrader_info(u.upgrader_name)
                   IN  /\ u.upgrader_min_version = info[3]
                       /\ u.upgrader_max_version = info[4]

\* The scenario of C9: descriptions foo_0_1 and bar_0_2 in any order, and the
\* table {aten::foo: [(foo_0_1, min 0, max 1)]}.
C9_Scenario ==
    /\ Len(upgrader_list) = 2
    /\ {upgrader_list[1].name, upgrader_list[2].name} = {foo_0_1, bar_0_2}
    /\ version_map = <<[op_name |-> aten_foo,
                        upgrader_entry_list |-> <<Entry(foo_0_1, <<0, 1>>)>>]>>

\* The entries of the table that supply their bounds as fields.
SuppliesBounds(upgrader_entry) == upgrader_entry.direct_bounds # <<>>

\* C9: on the scenario generation succeeds, with bar_0_2 at index 0, foo_0_1
\* at index 1 and the one Upgrader (0, 1, foo_0_1, 1) under aten::foo; and
\* when the entries supply their bounds as fields and resolve, generation
\* does not fail on the tokens of a name and emits the bounds supplied.
C9_DirectBounds ==
    /\ C9_Scenario =>
           /\ pc # "failed"
           /\ pc = "done" =>
                  /\ EmittedFunctionNames = <<bar_0_2, foo_0_1>>
                  /\ EmittedOperators =
                         <<[operator_name |-> aten_foo,
                            upgrader_list_in_version_map |->
                               <<[upgrader_min_version |-> <<"0">>,
                                  upgrader_max_version |-> <<"1">>,
                                  upgrader_name |-> foo_0_1,
                                  bytecode_func_index |-> 1]>>]>>
    /\ (\A k \in 1..Len(version_map) :
            \A j \in 1..Len(version_map[k].upgrader_entry_list) :
                LET e == version_map[k].upgrader_entry_list[j]
                IN  /\ SuppliesBounds(e)
                    /\ e.upgrader_name \in {upgrader_list[d].name : d \in 1..Len(upgrader_list)})
           => error.raised_in # "construct_version_maps"
    /\ pc = "done" =>
           \A k \in 1..Len(version_map) :
               \A j \in 1..Len(version_map[k].upgrader_entry_list) :
                   LET e == version_map[k].upgrader_entry_list[j]
                   IN  SuppliesBounds(e) =>
                           \A m \in 1..Len(EmittedOperators) :
                               \A n \in 1..Len(EmittedUpgraders(m)) :
                                   LET u == EmittedUpgraders(m)[n]
                                   IN  (/\ EmittedOperatorNames[m] = version_map[k].op_name
                                        /\ u.upgrader_name = e.upgrader_name) =>
                                           /\ u.upgrader_min_version = IntToStr(e.direct_bounds[1])
                                           /\ u.upgrader_max_version = IntToStr(e.direct_bounds[2])

\* The three rules of a description: known table kinds, constants that are
\* str, bool or None, a register_size that is a non-negative integer.
ValidDescription(bytecode) ==
    \A k \in 1..Len(bytecode) :
        /\ bytecode[k].table_name \in ByteCode
        /\ bytecode[k].table_name = "constants" =>
               \A c \in 1..Len(bytecode[k].contents) :
                   bytecode[k].contents[c].type \in {"str", "bool", "NoneType"}
        /\ bytecode[k].table_name = "register_size" =>
               /\ bytecode[k].contents.type = "int"
               /\ bytecode[k].contents.number >= 0

\* C10: generation aborts whenever a description of the input breaks one of
\* the three rules, so a finished run had none; in particular none of the
\* descriptions it rendered into the emitted table breaks a rule.
C10_DescriptionValidation ==
    pc = "done" =>
        /\ \A k \in 1..Len(upgrader_list) :
               ValidDescription(upgrader_list[k].bytecode)
        /\ \A k \in 1..Len(sorted_upgrader_list) :
               sorted_upgrader_list[k].name \in
                       {EmittedFunctionNames[f] : f \in 1..Len(EmittedFunctions)}
                   => ValidDescription(sorted_upgrader_list[k].bytecode)

============================================================================
